---- MODULE Spec2Model ----
(***************************************************************************)
(* A model of cj_bitmask_vec: BitmaskItem<B, T> (a bitmask paired with a   *)
(* payload), BitmaskVec<B, T> (a Vec of BitmaskItem) and its four          *)
(* iterators.                                                              *)
(*                                                                         *)
(* Conventions.  The Vec `inner` is a TLA+ sequence, so the element the    *)
(* code calls index i is inner[i + 1]; the arguments of insert and resize  *)
(* keep the code's 0-based values.  A bitmask of type B is a natural       *)
(* number below 2^MaskBits, and `&` is computed bit by bit (BitAnd).       *)
(* Every iterator constructor takes `&'a mut self` and returns a value     *)
(* carrying 'a, so the borrow checker admits one live iterator at a time   *)
(* and no call on the BitmaskVec while it lives: `cursor` is that one      *)
(* iterator, and the operations of BitmaskVec are enabled only when there  *)
(* is none.                                                                *)
(***************************************************************************)
EXTENDS Integers, Sequences, FiniteSets, TLC

\* ------------------------------------------------------------------ bounds
MaxLen == 2
MaskBits == 2
\* The longest sequence the methods that insert, remove and resize work on.
MaxEditLen == 3

Masks == 0 .. (2 ^ MaskBits - 1)
Items == {100, 101}
Lens == 0 .. MaxLen
\* The arguments of the methods that insert, remove and resize: positions and
\* lengths up to MaxEditLen, and the two extreme bitmasks (these methods move
\* bitmasks and never read them).
EditLens == 0 .. MaxEditLen
EditMasks == {0, 2 ^ MaskBits - 1}

\* A value that is no bitmask, no payload and no position.
NoVal == 0 - 1

VARIABLES
    inner,      \* BitmaskVec.inner : Vec<BitmaskItem<B, T>>
    cursor,     \* the live iterator: [kind, pos]; pos is the next position of the slice iterator
    last,       \* the last method call on the BitmaskVec or its iterator: its name,
                \* its arguments (but for filter_mask's mask) and what it returned
    pre_inner,  \* history: inner as it was when the last method call began (a write
                \* through a handed-out reference is no call and moves it along)
    hist,       \* history of the live iterator: the positions it yielded, whether it
                \* has returned None (exhausted) and was called again after that
                \* (recalled), and how it was called (calls, fmask)
    capacity,   \* inner.capacity(): the number of elements the Vec has room for
    other,      \* the BitmaskVec handed to the last call (append, `+= vec`), as the
                \* call left it: [inner, moved]
    pre_other,  \* history: the elements `other` held when that call began
    factory,    \* the closure handed to the last resize_with, as the call left it:
                \* [bitmask, i, calls]
    drained,    \* the range handed to the last drain and the elements its Drain
                \* iterator yielded: [start, end, items]
    built       \* history of the allocation: the capacity with_capacity(n) was
                \* asked for and gave, and the insertions made since, as long
                \* as (fresh) nothing but insertions were made:
                \* [n, cap, pushes, fresh]

vars == <<inner, cursor, last, pre_inner, hist, capacity, other, pre_other, factory,
          drained, built>>

\* What a call on an iterator leaves alone.
vec_rest == <<capacity, other, pre_other, factory, drained, built>>

\* ------------------------------------------------------------- BitmaskItem
\* B::default() of an unsigned integer type.
B_default == 0

RECURSIVE BitAnd(_, _)
BitAnd(a, b) ==
    IF a = 0 \/ b = 0 THEN 0
    ELSE ((a % 2) * (b % 2)) + 2 * BitAnd(a \div 2, b \div 2)

new(bitmask, item) == [bitmask |-> bitmask, item |-> item]

matches_mask_any(bitmask, mask) == BitAnd(bitmask, mask) # 0

matches_mask_exact(bitmask, mask) == bitmask = mask

matches_mask(bitmask, mask) == BitAnd(bitmask, mask) = mask

BitOr(a, b) == a + b - BitAnd(a, b)

set_mask_or(elem, bitmask) == [elem EXCEPT !.bitmask = BitOr(elem.bitmask, bitmask)]

set_mask(elem, bitmask) == [elem EXCEPT !.bitmask = bitmask]

\* Bitflag::get_bit and Bitflag::set_bit of the bitmask type B, as
\* `z.bitmask.set_bit(7, true)` uses it: "set_bit() only modifies a single
\* bit".
get_bit(b, bit) == (b \div (2 ^ bit)) % 2 = 1

set_bit(b, bit, value) ==
    b - (IF get_bit(b, bit) THEN 2 ^ bit ELSE 0) + (IF value THEN 2 ^ bit ELSE 0)

\* ----------------------------------------------------- Option<...> results
None == [some |-> FALSE, idx |-> NoVal, bitmask |-> NoVal, item |-> NoVal]
SomeItem(i, e) == [some |-> TRUE, idx |-> i, bitmask |-> NoVal, item |-> e.item]
SomePair(i, e) == [some |-> TRUE, idx |-> i, bitmask |-> e.bitmask, item |-> e.item]

\* -------------------------------------------------------------- BitmaskVec
Front(s) == SubSeq(s, 1, Len(s) - 1)

push_front(v, value) == <<new(B_default, value)>> \o v

push(v, value) == Append(v, new(B_default, value))

push_with_mask(v, bitmask, value) == Append(v, new(bitmask, value))

\* Vec::pop: the last element and the rest, or None and the Vec as it was.
vec_pop(v) ==
    IF Len(v) = 0 THEN [inner |-> v, ret |-> None]
    ELSE [inner |-> Front(v), ret |-> SomePair(Len(v), v[Len(v)])]

pop_keep(v) ==
    IF Len(v) = 0 THEN [inner |-> v, ret |-> None]
    ELSE [inner |-> v, ret |-> SomeItem(Len(v), v[Len(v)])]

pop(v) ==
    LET r == vec_pop(v)
    IN  IF r.ret.some
        THEN [inner |-> r.inner, ret |-> [r.ret EXCEPT !.bitmask = NoVal]]
        ELSE [inner |-> r.inner, ret |-> None]

pop_with_mask_first(v) ==
    IF Len(v) = 0 THEN [inner |-> v, ret |-> None]
    ELSE [inner |-> Tail(v), ret |-> SomePair(1, v[1])]

pop_with_mask(v) == vec_pop(v)

\* Vec::insert: panics, before touching the Vec, when index > len.
vec_insert(v, index, elem) ==
    IF index > Len(v) THEN [inner |-> v, panic |-> TRUE]
    ELSE [inner |-> SubSeq(v, 1, index) \o <<elem>> \o SubSeq(v, index + 1, Len(v)),
          panic |-> FALSE]

insert_neighbour_mask(v, index, value) ==
    vec_insert(v, index,
               new(IF index < Len(v) THEN v[index + 1].bitmask ELSE B_default, value))

insert(v, index, value) == vec_insert(v, index, new(B_default, value))

\* Vec::resize: truncate when new_len <= len, else extend with clones of elem.
vec_resize(v, new_len, elem) ==
    IF new_len > Len(v)
    THEN v \o [k \in 1 .. (new_len - Len(v)) |-> elem]
    ELSE SubSeq(v, 1, new_len)

resize(v, new_len, value) == vec_resize(v, new_len, new(B_default, value))

insert_with_mask_replace(v, index, bitmask, value) ==
    IF index < Len(v)
    THEN [inner |-> [v EXCEPT ![index + 1] = new(bitmask, value)], panic |-> FALSE]
    ELSE vec_insert(v, index, new(bitmask, value))

insert_with_mask(v, index, bitmask, value) == vec_insert(v, index, new(bitmask, value))

vec_remove_clamp(v, index) ==
    IF Len(v) = 0 THEN [inner |-> v, ret |-> None, panic |-> FALSE]
    ELSE LET i == IF index >= Len(v) THEN Len(v) ELSE index + 1
         IN  [inner |-> SubSeq(v, 1, i - 1) \o SubSeq(v, i + 1, Len(v)),
              ret |-> SomePair(i, v[i]), panic |-> FALSE]

\* Vec::remove: panics, before touching the Vec, when index >= len; else takes
\* the element out and moves the ones after it one position down.
vec_remove(v, index) ==
    IF index >= Len(v) THEN [inner |-> v, ret |-> None, panic |-> TRUE]
    ELSE [inner |-> SubSeq(v, 1, index) \o SubSeq(v, index + 2, Len(v)),
          ret |-> SomePair(index + 1, v[index + 1]), panic |-> FALSE]

swap_remove_payload_only(v, index) ==
    IF index >= Len(v) THEN [inner |-> v, ret |-> None, panic |-> TRUE]
    ELSE [inner |-> Front([v EXCEPT ![index + 1].item = v[Len(v)].item]),
          ret |-> SomePair(index + 1, v[index + 1]), panic |-> FALSE]

\* Vec::swap_remove: panics, before touching the Vec, when index >= len; else
\* reads the element, copies the last element over it and shortens the Vec.
vec_swap_remove(v, index) ==
    IF index >= Len(v) THEN [inner |-> v, ret |-> None, panic |-> TRUE]
    ELSE [inner |-> Front([v EXCEPT ![index + 1] = v[Len(v)]]),
          ret |-> SomePair(index + 1, v[index + 1]), panic |-> FALSE]

\* `let x = self.inner.remove(index); x.item`
ItemOf(r) ==
    [r EXCEPT !.ret = IF r.ret.some THEN [r.ret EXCEPT !.bitmask = NoVal] ELSE None]

remove_swap(v, index) == ItemOf(vec_swap_remove(v, index))

remove(v, index) == ItemOf(vec_remove(v, index))

remove_with_mask_swap(v, index) == vec_swap_remove(v, index)

remove_with_mask(v, index) == vec_remove(v, index)

swap_remove(v, index) == ItemOf(vec_swap_remove(v, index))

swap_with_mask_remove_shift(v, index) == vec_remove(v, index)

swap_with_mask_remove(v, index) == vec_swap_remove(v, index)

\* Vec::is_empty.
is_empty(v) == Len(v) = 0

truncate_keep_last(v, len) ==
    IF len > Len(v) THEN v ELSE SubSeq(v, Len(v) - len + 1, Len(v))

\* Vec::truncate: nothing when len is greater than the Vec's length, else the
\* elements from position len on are dropped.
truncate(v, len) ==
    IF len > Len(v) THEN v ELSE SubSeq(v, 1, len)

clear_dealloc(v, cap) == [inner |-> <<>>, capacity |-> 0]

\* Vec::clear: truncate(0); the allocation is kept.
clear(v, cap) == [inner |-> truncate(v, 0), capacity |-> cap]

resize_with_mask_first_only(v, new_len, bitmask, value) ==
    IF new_len > Len(v)
    THEN vec_resize(Append(v, new(bitmask, value)), new_len, new(B_default, value))
    ELSE vec_resize(v, new_len, new(bitmask, value))

resize_with_mask(v, new_len, bitmask, value) ==
    vec_resize(v, new_len, new(bitmask, value))

\* A closure handed to resize_with, `|| { i += 1; BitmaskItem::new(b, ...) }`:
\* it captures a bitmask b and a counter i, counts its invocations in i and
\* returns b with a payload that differs from one invocation to the next.
\* calls (history) is the number of times it has been invoked.
Factories == [bitmask : EditMasks, i : {0, 1}, calls : {0}]

factory_call(f) ==
    LET i == f.i + 1
    IN  [factory |-> [f EXCEPT !.i = i, !.calls = f.calls + 1],
         ret |-> new(f.bitmask, 100 + (i % 2))]

\* Vec::extend_with / repeat_with(f).take(n): n invocations of f, each result
\* pushed as it is produced.
RECURSIVE extend_with(_, _, _)
extend_with(v, n, f) ==
    IF n = 0 THEN [inner |-> v, factory |-> f]
    ELSE LET c == factory_call(f)
         IN  extend_with(Append(v, c.ret), n - 1, c.factory)

resize_with_once(v, new_len, f) ==
    IF new_len > Len(v)
    THEN LET c == factory_call(f)
         IN  [inner |-> vec_resize(v, new_len, c.ret), factory |-> c.factory]
    ELSE [inner |-> truncate(v, new_len), factory |-> f]

\* Vec::resize_with: extend with the results of f when new_len > len, else
\* truncate.
resize_with(v, new_len, f) ==
    IF new_len > Len(v) THEN extend_with(v, new_len - Len(v), f)
    ELSE [inner |-> truncate(v, new_len), factory |-> f]

append_keep_other(v, o) == [inner |-> v \o o, other |-> o]

\* Vec::append: the elements of other are copied to the end of self and
\* other's length is set to 0.
append(v, o) == [inner |-> v \o o, other |-> <<>>]

\* Vec::extend from an iterator: every element it yields is pushed, in turn.
RECURSIVE vec_extend(_, _)
vec_extend(v, it) ==
    IF Len(it) = 0 THEN v ELSE vec_extend(Append(v, Head(it)), Tail(it))

add_assign_vec_reversed(v, rhs) ==
    [inner |-> vec_extend(v, [k \in 1 .. Len(rhs) |-> rhs[Len(rhs) + 1 - k]]),
     other |-> <<>>]

\* `self.inner.extend(rhs.inner)`: rhs.inner is moved into an iterator that
\* yields all its elements, and nothing of rhs is left.
add_assign_vec(v, rhs) == [inner |-> vec_extend(v, rhs), other |-> <<>>]

\* Vec::reserve_exact: when the Vec lacks room, room for exactly the required
\* length.
reserve_exact(cap, required) ==
    IF required <= cap THEN cap ELSE required

with_capacity_lazy(n) == [inner |-> <<>>, capacity |-> 0]

\* Vec::with_capacity: an empty Vec with room for n elements.
with_capacity(n) == [inner |-> <<>>, capacity |-> n]

drain_to_end(v, start, end) ==
    IF start > end \/ end > Len(v)
    THEN [inner |-> v, items |-> <<>>, panic |-> TRUE]
    ELSE [inner |-> SubSeq(v, 1, start),
          items |-> SubSeq(v, start + 1, Len(v)), panic |-> FALSE]

\* Vec::drain(start .. end), with the Drain it returns run to its end and
\* dropped: panics, before touching the Vec, when start > end or end > len;
\* else the Drain yields the elements of the range in order and its drop
\* moves the tail down.
drain(v, start, end) ==
    IF start > end \/ end > Len(v)
    THEN [inner |-> v, items |-> <<>>, panic |-> TRUE]
    ELSE [inner |-> SubSeq(v, 1, start) \o SubSeq(v, end + 1, Len(v)),
          items |-> SubSeq(v, start + 1, end), panic |-> FALSE]

\* Vec::extend_from_slice: clones of the elements of the slice are appended;
\* the slice is only read.
extend_from_slice(v, o) == [inner |-> v \o o, other |-> o]

\* `v.as_mut_slice()[i]`, written through: the slice index panics when
\* i >= len.
as_mut_slice_write(v, i, elem) ==
    IF i >= Len(v) THEN [inner |-> v, panic |-> TRUE]
    ELSE [inner |-> [v EXCEPT ![i + 1] = elem], panic |-> FALSE]

\* `&self.inner[index].item`: the slice index panics when index >= len.
Index_index(v, i) ==
    IF i >= Len(v) THEN [ret |-> None, panic |-> TRUE]
    ELSE [ret |-> SomeItem(i + 1, v[i + 1]), panic |-> FALSE]

index_mut_reset_mask(v, i, value) ==
    IF i >= Len(v) THEN [inner |-> v, panic |-> TRUE]
    ELSE [inner |-> [v EXCEPT ![i + 1] = new(B_default, value)], panic |-> FALSE]

\* `self.inner[index].item = value` through index_mut.
IndexMut_index_mut(v, i, value) ==
    IF i >= Len(v) THEN [inner |-> v, panic |-> TRUE]
    ELSE [inner |-> [v EXCEPT ![i + 1].item = value], panic |-> FALSE]

\* ------------------------------------------------------------------- calls
\* The record of a call.  after_push says that the call is a pop_with_mask made
\* right after a push_with_mask, with no call in between.
Call(op, index, bitmask, item, ret, panic) ==
    [op |-> op, index |-> index, bitmask |-> bitmask, item |-> item,
     ret |-> ret, panic |-> panic,
     after_push |-> (op = "pop_with_mask" /\ last.op = "push_with_mask")]

NoCursor == [kind |-> "none", pos |-> 0]
NoHist == [yielded |-> <<>>, exhausted |-> FALSE, recalled |-> FALSE,
           calls |-> "none", fmask |-> NoVal]

Idle == cursor.kind = "none"

\* The receiver of a method: "shared" for `&self` (index, capacity, is_empty,
\* len, as_slice), "mut" for `&mut self`.  The four methods that make an
\* iterator take `&'a mut self`, the two read-only ones as well.
receiver(op) ==
    IF op \in {"index", "capacity", "is_empty", "len", "as_slice"}
    THEN "shared" ELSE "mut"

\* The method that made an iterator of a kind.
Constructor(kind) ==
    CASE kind = "BitmaskVecIter" -> "iter"
      [] kind = "BitmaskVecIterWithMask" -> "iter_with_mask"
      [] kind = "BitmaskVecIterMut" -> "iter_mut"
      [] kind = "BitmaskVecIterWithMaskMut" -> "iter_with_mask_mut"
      [] OTHER -> "none"

\* The borrow of the BitmaskVec that the live iterator holds for its lifetime
\* 'a: the one its constructor took.
LiveBorrow == IF Idle THEN "none" ELSE receiver(Constructor(cursor.kind))

borrow_unchecked(r) == TRUE

\* The borrow checker: a `&mut self` call needs that no borrow is alive, a
\* `&self` call that no `&mut` borrow is.
BorrowOK(r) ==
    \/ LiveBorrow = "none"
    \/ LiveBorrow = "shared" /\ r = "shared"

\* No second BitmaskVec and no closure: the arguments of a call that takes
\* neither.
NoOther == [inner |-> <<>>, moved |-> FALSE]
NoFactory == [bitmask |-> NoVal, i |-> NoVal, calls |-> 0]
NoDrain == [start |-> NoVal, end |-> NoVal, items |-> <<>>]
NoBuilt == [n |-> 0, cap |-> 0, pushes |-> 0, fresh |-> FALSE]

\* The calls that insert one element.
Insertions == {"push", "push_with_mask", "insert", "insert_with_mask",
               "add_assign_item", "add_assign_pair"}

\* What a call that drains nothing leaves of the histories: one more insertion
\* counted, or the count given up.
Rest(op, panic) ==
    /\ drained' = NoDrain
    /\ built' = IF built.fresh /\ op \in Insertions /\ ~panic
                THEN [built EXCEPT !.pushes = @ + 1]
                ELSE NoBuilt

\* RawVec::MIN_NON_ZERO_CAP for elements of 2 to 1024 bytes, as a
\* BitmaskItem<u8, i32> is.
MIN_NON_ZERO_CAP == 4

Max(a, b) == IF a >= b THEN a ELSE b

\* RawVec::grow_amortized: at least twice the capacity, the required length
\* and MIN_NON_ZERO_CAP.
grow_amortized(cap, required) == Max(Max(2 * cap, required), MIN_NON_ZERO_CAP)

reserve_late(cap, required) ==
    IF required <= cap + 1 THEN cap ELSE grow_amortized(cap, required)

\* Vec::reserve, as push, insert, resize, append and extend call it: the Vec
\* allocates only when it lacks room for the required length.
reserve(cap, required) ==
    IF required <= cap THEN cap ELSE grow_amortized(cap, required)

TypeOK ==
    /\ inner \in Seq([bitmask : Masks, item : Items])
    /\ Len(inner) <= MaxEditLen
    /\ pre_inner \in Seq([bitmask : Masks, item : Items])
    /\ cursor.pos \in 0 .. (MaxLen + 1)

Init ==
    /\ inner = <<>>
    /\ cursor = NoCursor
    /\ last = [op |-> "new", index |-> NoVal, bitmask |-> NoVal, item |-> NoVal,
               ret |-> None, panic |-> FALSE, after_push |-> FALSE]
    /\ pre_inner = <<>>
    /\ hist = NoHist
    /\ capacity = 0
    /\ other = NoOther
    /\ pre_other = <<>>
    /\ factory = NoFactory
    /\ drained = NoDrain
    /\ built = NoBuilt

\* A call on the BitmaskVec itself: no iterator is alive.
CallFrame(op, index, bitmask, item, newInner, ret, panic) ==
    /\ BorrowOK(receiver(op))
    /\ inner' = newInner
    /\ pre_inner' = inner
    /\ last' = Call(op, index, bitmask, item, ret, panic)
    /\ UNCHANGED <<cursor, hist>>

\* A call that takes neither another BitmaskVec nor a closure, and allocates
\* only when the elements it adds need room.
VecCall(op, index, bitmask, item, newInner, ret, panic) ==
    /\ CallFrame(op, index, bitmask, item, newInner, ret, panic)
    /\ capacity' = reserve(capacity, Len(newInner))
    /\ other' = NoOther
    /\ pre_other' = <<>>
    /\ factory' = NoFactory
    /\ Rest(op, panic)

Push(value) ==
    /\ Len(inner) < MaxLen
    /\ VecCall("push", NoVal, NoVal, value, push(inner, value), None, FALSE)

PushWithMask(bitmask, value) ==
    /\ Len(inner) < MaxLen
    /\ VecCall("push_with_mask", NoVal, bitmask, value,
               push_with_mask(inner, bitmask, value), None, FALSE)

Pop ==
    LET r == pop(inner)
    IN  VecCall("pop", NoVal, NoVal, NoVal, r.inner, r.ret, FALSE)

PopWithMask ==
    LET r == pop_with_mask(inner)
    IN  VecCall("pop_with_mask", NoVal, NoVal, NoVal, r.inner, r.ret, FALSE)

Insert(index, value) ==
    LET r == insert(inner, index, value)
    IN  /\ r.panic \/ Len(inner) < MaxLen
        /\ VecCall("insert", index, NoVal, value, r.inner, None, r.panic)

Resize(new_len, value) ==
    VecCall("resize", new_len, NoVal, value, resize(inner, new_len, value), None, FALSE)

\* `vec += value` is self.push(value).
AddAssignItem(value) ==
    /\ Len(inner) < MaxLen
    /\ VecCall("add_assign_item", NoVal, NoVal, value, push(inner, value), None, FALSE)

\* `vec += (bitmask, value)` is self.push_with_mask(bitmask, value).
AddAssignPair(bitmask, value) ==
    /\ Len(inner) < MaxLen
    /\ VecCall("add_assign_pair", NoVal, bitmask, value,
               push_with_mask(inner, bitmask, value), None, FALSE)

InsertWithMask(index, bitmask, value) ==
    LET r == insert_with_mask(inner, index, bitmask, value)
    IN  /\ r.panic \/ Len(inner) < MaxEditLen
        /\ VecCall("insert_with_mask", index, bitmask, value, r.inner, None, r.panic)

Remove(index) ==
    LET r == remove(inner, index)
    IN  VecCall("remove", index, NoVal, NoVal, r.inner, r.ret, r.panic)

RemoveWithMask(index) ==
    LET r == remove_with_mask(inner, index)
    IN  VecCall("remove_with_mask", index, NoVal, NoVal, r.inner, r.ret, r.panic)

SwapRemove(index) ==
    LET r == swap_remove(inner, index)
    IN  VecCall("swap_remove", index, NoVal, NoVal, r.inner, r.ret, r.panic)

SwapWithMaskRemove(index) ==
    LET r == swap_with_mask_remove(inner, index)
    IN  VecCall("swap_with_mask_remove", index, NoVal, NoVal, r.inner, r.ret, r.panic)

\* `vec[index]`, read.
Index(i) ==
    LET r == Index_index(inner, i)
    IN  VecCall("index", i, NoVal, NoVal, inner, r.ret, r.panic)

\* `vec[index] = value`.
IndexMut(i, value) ==
    LET r == IndexMut_index_mut(inner, i, value)
    IN  VecCall("index_mut", i, NoVal, value, r.inner, None, r.panic)

Truncate(len) ==
    VecCall("truncate", len, NoVal, NoVal, truncate(inner, len), None, FALSE)

Clear ==
    LET r == clear(inner, capacity)
    IN  /\ CallFrame("clear", NoVal, NoVal, NoVal, r.inner, None, FALSE)
        /\ capacity' = r.capacity
        /\ other' = NoOther
        /\ pre_other' = <<>>
        /\ factory' = NoFactory
        /\ Rest("clear", FALSE)

ResizeWithMask(new_len, bitmask, value) ==
    VecCall("resize_with_mask", new_len, bitmask, value,
            resize_with_mask(inner, new_len, bitmask, value), None, FALSE)

ResizeWith(new_len, f) ==
    LET r == resize_with(inner, new_len, f)
    IN  /\ CallFrame("resize_with", new_len, NoVal, NoVal, r.inner, None, FALSE)
        /\ capacity' = reserve(capacity, Len(r.inner))
        /\ other' = NoOther
        /\ pre_other' = <<>>
        /\ factory' = r.factory
        /\ Rest("resize_with", FALSE)

Payload(i) == IF i % 2 = 1 THEN 100 ELSE 101

\* The sequences of at most n elements another BitmaskVec holds: any of the
\* two bitmasks at any position, and payloads that alternate, so that
\* neighbours differ.
EditSeqs(n) ==
    UNION {{[i \in 1 .. k |-> new(ms[i], Payload(i))] : ms \in [1 .. k -> EditMasks]} :
              k \in 0 .. n}

\* A call that takes another BitmaskVec, holding o, and leaves it holding
\* r.other.
OtherCall(op, o, r, moved) ==
    /\ Len(inner) + Len(o) <= MaxEditLen
    /\ CallFrame(op, NoVal, NoVal, NoVal, r.inner, None, FALSE)
    /\ capacity' = reserve(capacity, Len(r.inner))
    /\ other' = [inner |-> r.other, moved |-> moved]
    /\ pre_other' = o
    /\ factory' = NoFactory
    /\ Rest(op, FALSE)

\* self.append(&mut other): other stays with the caller.
Append_(o) == OtherCall("append", o, append(inner, o), FALSE)

\* `vec += rhs`: rhs is passed by value and dropped by the call.
AddAssignVec(rhs) == OtherCall("add_assign_vec", rhs, add_assign_vec(inner, rhs), TRUE)

\* The methods that insert, remove, resize and join, on sequences of up to
\* MaxEditLen elements.
NextEdit ==
    \/ \E i \in EditLens, m \in EditMasks, v \in Items : InsertWithMask(i, m, v)
    \/ \E i \in Lens, v \in Items : Insert(i, v)
    \/ \E i \in EditLens : Remove(i)
    \/ \E i \in EditLens : RemoveWithMask(i)
    \/ \E i \in EditLens : SwapRemove(i)
    \/ \E i \in EditLens : SwapWithMaskRemove(i)
    \/ \E i \in EditLens : Index(i)
    \/ \E i \in EditLens, v \in Items : IndexMut(i, v)
    \/ \E n \in EditLens : Truncate(n)
    \/ Clear
    \/ \E n \in EditLens, v \in Items : Resize(n, v)
    \/ \E n \in EditLens, m \in EditMasks, v \in Items : ResizeWithMask(n, m, v)
    \/ \E n \in EditLens, f \in Factories : ResizeWith(n, f)
    \/ \E o \in EditSeqs(MaxEditLen - Len(inner)) : Append_(o)
    \/ \E o \in EditSeqs(MaxEditLen - Len(inner)) : AddAssignVec(o)

SpecEdit == Init /\ [][NextEdit]_vars

Drain(start, end) ==
    LET r == drain(inner, start, end)
    IN  /\ CallFrame("drain", start, NoVal, NoVal, r.inner, None, r.panic)
        /\ UNCHANGED capacity
        /\ other' = NoOther
        /\ pre_other' = <<>>
        /\ factory' = NoFactory
        /\ drained' = [start |-> start, end |-> end, items |-> r.items]
        /\ built' = NoBuilt

ExtendFromSlice(o) ==
    OtherCall("extend_from_slice", o, extend_from_slice(inner, o), FALSE)

\* `v = BitmaskVec::with_capacity(n)`.
WithCapacity(n) ==
    LET r == with_capacity(n)
    IN  /\ CallFrame("with_capacity", n, NoVal, NoVal, r.inner, None, FALSE)
        /\ capacity' = r.capacity
        /\ other' = NoOther
        /\ pre_other' = <<>>
        /\ factory' = NoFactory
        /\ drained' = NoDrain
        /\ built' = [n |-> n, cap |-> r.capacity, pushes |-> 0, fresh |-> TRUE]

\* A call that changes the capacity alone.
CapacityCall(op, additional, cap) ==
    /\ CallFrame(op, additional, NoVal, NoVal, inner, None, FALSE)
    /\ capacity' = cap
    /\ other' = NoOther
    /\ pre_other' = <<>>
    /\ factory' = NoFactory
    /\ Rest(op, FALSE)

Reserve(additional) ==
    CapacityCall("reserve", additional, reserve(capacity, Len(inner) + additional))

ReserveExact(additional) ==
    CapacityCall("reserve_exact", additional,
                 reserve_exact(capacity, Len(inner) + additional))

\* `v.as_mut_slice()[i].set_mask(bitmask)`.
SliceSetMask(i, bitmask) ==
    LET r == as_mut_slice_write(inner, i,
                 IF i < Len(inner) THEN set_mask(inner[i + 1], bitmask)
                 ELSE new(bitmask, NoVal))
    IN  VecCall("as_mut_slice_set_mask", i, bitmask, NoVal, r.inner, None, r.panic)

\* `v.as_mut_slice()[i].bitmask.set_bit(bit, value)`; the call is recorded with
\* the mask of the bit, 2^bit, as its bitmask and the value as its ret.some.
SliceSetBit(i, bit, value) ==
    LET r == as_mut_slice_write(inner, i,
                 IF i < Len(inner)
                 THEN [inner[i + 1] EXCEPT !.bitmask = set_bit(@, bit, value)]
                 ELSE new(NoVal, NoVal))
    IN  VecCall("as_mut_slice_set_bit", i, 2 ^ bit, NoVal, r.inner,
                [None EXCEPT !.some = value], r.panic)

\* --------------------------------------------------------------- iterators
\* slice::Iter / IterMut ::next over the borrowed slice s, from position pos.
slice_next(s, pos) ==
    IF pos <= Len(s) THEN [some |-> TRUE, idx |-> pos, pos |-> pos + 1]
    ELSE [some |-> FALSE, idx |-> NoVal, pos |-> pos]

\* Iterator::find on by_ref(): call next() until the predicate holds or next()
\* returns None.
RECURSIVE iter_find(_, _, _)
iter_find(s, pos, mask) ==
    LET r == slice_next(s, pos)
    IN  IF ~r.some THEN r
        ELSE IF matches_mask(s[r.idx].bitmask, mask) THEN r
        ELSE iter_find(s, r.pos, mask)

\* What a step of the slice iterator hands out: a reference, which is the
\* position it refers to (the iterator's Item type says whether it is a
\* reference to the payload or to the whole BitmaskItem).
SomeRef(i) == [some |-> TRUE, idx |-> i, bitmask |-> NoVal, item |-> NoVal]

Step(s, r) == [pos |-> r.pos, ret |-> IF r.some THEN SomeRef(r.idx) ELSE None]

next_skip_one(s, pos) ==
    LET r == slice_next(s, pos)
    IN  Step(s, [r EXCEPT !.pos = IF r.some THEN r.pos + 1 ELSE r.pos])

BitmaskVecIter_next(s, pos) == Step(s, slice_next(s, pos))

BitmaskVecIterWithMask_next(s, pos) == Step(s, slice_next(s, pos))

filter_mask_from_start(s, pos, mask) == Step(s, iter_find(s, 1, mask))

filter_mask_no_skip(s, pos, mask) ==
    LET r == slice_next(s, pos)
    IN  IF r.some /\ ~matches_mask(s[r.idx].bitmask, mask)
        THEN [pos |-> r.pos, ret |-> None]
        ELSE Step(s, r)

BitmaskVecIterWithMask_filter_mask(s, pos, mask) == Step(s, iter_find(s, pos, mask))

next_rewind(s, pos) ==
    IF pos <= Len(s) THEN Step(s, slice_next(s, pos))
    ELSE [pos |-> 1, ret |-> None]

BitmaskVecIterMut_next(s, pos) == Step(s, slice_next(s, pos))

BitmaskVecIterWithMaskMut_next(s, pos) == Step(s, slice_next(s, pos))

filter_mask_skip_extra(s, pos, mask) ==
    LET r == iter_find(s, pos, mask)
    IN  Step(s, [r EXCEPT !.pos = IF r.some /\ r.pos <= Len(s) THEN r.pos + 1 ELSE r.pos])

BitmaskVecIterWithMaskMut_filter_mask(s, pos, mask) == Step(s, iter_find(s, pos, mask))

Kinds == {"BitmaskVecIter", "BitmaskVecIterWithMask",
          "BitmaskVecIterMut", "BitmaskVecIterWithMaskMut"}
WithMaskKinds == {"BitmaskVecIterWithMask", "BitmaskVecIterWithMaskMut"}
MutKinds == {"BitmaskVecIterMut", "BitmaskVecIterWithMaskMut"}
CursorCalls == {"next", "filter_mask"}

\* iter / iter_with_mask / iter_mut / iter_with_mask_mut: a new iterator over
\* the whole of inner.  It is a call on the BitmaskVec alone: what an earlier
\* call left of a second BitmaskVec, a closure or a Drain is out of the
\* picture.
NewCursor(op, kind) ==
    /\ BorrowOK(receiver(op))
    /\ cursor' = [kind |-> kind, pos |-> 1]
    /\ hist' = NoHist
    /\ last' = Call(op, NoVal, NoVal, NoVal, None, FALSE)
    /\ pre_inner' = inner
    /\ other' = NoOther
    /\ pre_other' = <<>>
    /\ factory' = NoFactory
    /\ drained' = NoDrain
    /\ UNCHANGED <<inner, capacity, built>>

Iter == NewCursor("iter", "BitmaskVecIter")
IterWithMask == NewCursor("iter_with_mask", "BitmaskVecIterWithMask")
IterMut == NewCursor("iter_mut", "BitmaskVecIterMut")
IterWithMaskMut == NewCursor("iter_with_mask_mut", "BitmaskVecIterWithMaskMut")

\* How the iterator has been called so far: only next(), only filter_mask
\* with one mask, or otherwise.
CallsAfter(op, mask) ==
    IF hist.calls = "none" THEN [calls |-> op, fmask |-> mask]
    ELSE IF hist.calls = op /\ hist.fmask = mask THEN [calls |-> op, fmask |-> mask]
    ELSE [calls |-> "mixed", fmask |-> NoVal]

\* A call of next() or filter_mask() on the live iterator, with outcome r.
CursorCall(kind, op, mask, r) ==
    /\ cursor.kind = kind
    /\ cursor' = [cursor EXCEPT !.pos = r.pos]
    /\ last' = Call(op, NoVal, NoVal, NoVal, r.ret, FALSE)
    /\ hist' = [yielded |-> IF r.ret.some THEN Append(hist.yielded, r.ret.idx)
                            ELSE hist.yielded,
                exhausted |-> hist.exhausted \/ ~r.ret.some,
                recalled |-> hist.recalled \/ hist.exhausted,
                calls |-> CallsAfter(op, mask).calls,
                fmask |-> CallsAfter(op, mask).fmask]
    /\ pre_inner' = inner
    /\ UNCHANGED <<inner, vec_rest>>

IterNext ==
    CursorCall("BitmaskVecIter", "next", NoVal, BitmaskVecIter_next(inner, cursor.pos))

IterWithMaskNext ==
    CursorCall("BitmaskVecIterWithMask", "next", NoVal,
               BitmaskVecIterWithMask_next(inner, cursor.pos))

IterWithMaskFilter(mask) ==
    CursorCall("BitmaskVecIterWithMask", "filter_mask", mask,
               BitmaskVecIterWithMask_filter_mask(inner, cursor.pos, mask))

IterMutNext ==
    CursorCall("BitmaskVecIterMut", "next", NoVal,
               BitmaskVecIterMut_next(inner, cursor.pos))

IterWithMaskMutNext ==
    CursorCall("BitmaskVecIterWithMaskMut", "next", NoVal,
               BitmaskVecIterWithMaskMut_next(inner, cursor.pos))

IterWithMaskMutFilter(mask) ==
    CursorCall("BitmaskVecIterWithMaskMut", "filter_mask", mask,
               BitmaskVecIterWithMaskMut_filter_mask(inner, cursor.pos, mask))

\* A write through the reference the live mutable iterator handed out last
\* (`*z = value`, `z.item = value`, `z.set_mask(bitmask)` in the body of a
\* loop over the iterator).  The iterator is past that element and never reads
\* it again.
LastYielded == hist.yielded[Len(hist.yielded)]

CanWrite(kinds) ==
    /\ cursor.kind \in kinds
    /\ Len(hist.yielded) > 0

WriteItem(value) ==
    /\ CanWrite(MutKinds)
    /\ inner' = [inner EXCEPT ![LastYielded].item = value]
    /\ pre_inner' = inner'
    /\ UNCHANGED <<cursor, last, hist, vec_rest>>

SetMask(bitmask) ==
    /\ CanWrite({"BitmaskVecIterWithMaskMut"})
    /\ inner' = [inner EXCEPT ![LastYielded] = set_mask(inner[LastYielded], bitmask)]
    /\ pre_inner' = inner'
    /\ hist' = [hist EXCEPT !.calls = "mixed", !.fmask = NoVal]
    /\ UNCHANGED <<cursor, last, vec_rest>>

\* `z.bitmask.set_bit(bit, value)` on the element the mutable payload+mask
\* iterator handed out last.
SetBit(bit, value) ==
    /\ CanWrite({"BitmaskVecIterWithMaskMut"})
    /\ inner' = [inner EXCEPT ![LastYielded].bitmask = set_bit(@, bit, value)]
    /\ pre_inner' = inner'
    /\ hist' = [hist EXCEPT !.calls = "mixed", !.fmask = NoVal]
    /\ UNCHANGED <<cursor, last, vec_rest>>

\* The iterator goes out of scope and the borrow of the BitmaskVec ends.
DropCursor ==
    /\ ~Idle
    /\ cursor' = NoCursor
    /\ hist' = NoHist
    /\ last' = Call("drop", NoVal, NoVal, NoVal, None, FALSE)
    /\ pre_inner' = inner
    /\ UNCHANGED <<inner, vec_rest>>

\* The methods of BitmaskVec.
NextVec ==
    \/ \E v \in Items : Push(v)
    \/ \E m \in Masks, v \in Items : PushWithMask(m, v)
    \/ Pop
    \/ PopWithMask
    \/ \E i \in Lens, v \in Items : Insert(i, v)
    \/ \E n \in Lens, v \in Items : Resize(n, v)
    \/ \E v \in Items : AddAssignItem(v)
    \/ \E m \in Masks, v \in Items : AddAssignPair(m, v)

\* An iterator, from its construction: its methods and the writes through the
\* references it hands out.
NextIter ==
    \/ Iter
    \/ IterWithMask
    \/ IterMut
    \/ IterWithMaskMut
    \/ IterNext
    \/ IterWithMaskNext
    \/ \E m \in Masks : IterWithMaskFilter(m)
    \/ IterMutNext
    \/ IterWithMaskMutNext
    \/ \E m \in Masks : IterWithMaskMutFilter(m)
    \/ \E v \in Items : WriteItem(v)
    \/ \E m \in Masks : SetMask(m)

\* The methods that keep or change the order of the elements, with drain and
\* extend_from_slice, and a traversal with iter().
NextOrder ==
    \/ \E v \in Items : Push(v)
    \/ \E i \in EditLens, m \in EditMasks, v \in Items : InsertWithMask(i, m, v)
    \/ \E i \in EditLens : Remove(i)
    \/ \E i \in EditLens : SwapRemove(i)
    \/ \E i \in EditLens : SwapWithMaskRemove(i)
    \/ Pop
    \/ \E n \in EditLens : Truncate(n)
    \/ \E s \in EditLens, e \in EditLens : Drain(s, e)
    \/ \E n \in EditLens, v \in Items : Resize(n, v)
    \/ \E o \in EditSeqs(MaxEditLen - Len(inner)) : Append_(o)
    \/ \E o \in EditSeqs(MaxEditLen - Len(inner)) : ExtendFromSlice(o)
    \/ \E o \in EditSeqs(MaxEditLen - Len(inner)) : AddAssignVec(o)
    \/ \E i \in EditLens, v \in Items : IndexMut(i, v)
    \/ Iter
    \/ IterNext
    \/ DropCursor

SpecOrder == Init /\ [][NextOrder]_vars

\* The bits and the bitmasks the writes to a bitmask are run with: the two low
\* bits, which set_bit on either of them keeps within.
ViewBits == {0, 1}
ViewMasks == {0, 1, 2, 3}
\* The bitmasks elements are pushed with, and the ones set_mask is called with.
PushedMasks == {1, 2}
WrittenMasks == {0, 1}

\* The sequences of at most n elements a second BitmaskVec or a slice holds
\* there: a bitmask of one bit, payloads that alternate.
ViewSeqs(n) ==
    UNION {{[i \in 1 .. k |-> new(ms[i], Payload(i))] : ms \in [1 .. k -> {2}]} :
              k \in 0 .. n}

\* The methods that move elements or write payloads, the writes through
\* as_mut_slice, and the four iterators: the mutable ones with next() and the
\* writes through what they hand out, iter() with next(), iter_with_mask()
\* with filter_mask; on sequences of up to MaxLen elements.
NextView ==
    \/ \E m \in PushedMasks, v \in Items : PushWithMask(m, v)
    \/ \E i \in Lens, v \in Items : Insert(i, v)
    \/ \E i \in Lens : Remove(i)
    \/ \E i \in Lens : SwapRemove(i)
    \/ Pop
    \/ \E n \in Lens : Truncate(n)
    \/ \E s \in {0, 1}, e \in Lens : Drain(s, e)
    \/ \E n \in Lens, v \in Items : Resize(n, v)
    \/ \E o \in ViewSeqs(MaxLen - Len(inner)) : Append_(o)
    \/ \E o \in ViewSeqs(MaxLen - Len(inner)) : ExtendFromSlice(o)
    \/ \E o \in ViewSeqs(MaxLen - Len(inner)) : AddAssignVec(o)
    \/ \E i \in Lens, v \in Items : IndexMut(i, v)
    \/ \E i \in Lens, m \in WrittenMasks : SliceSetMask(i, m)
    \/ \E i \in Lens, k \in ViewBits, b \in BOOLEAN : SliceSetBit(i, k, b)
    \/ Iter
    \/ IterWithMask
    \/ IterMut
    \/ IterWithMaskMut
    \/ IterNext
    \/ \E m \in {1} : IterWithMaskFilter(m)
    \/ IterMutNext
    \/ IterWithMaskMutNext
    \/ \E v \in Items : WriteItem(v)
    \/ \E m \in WrittenMasks : SetMask(m)
    \/ \E k \in ViewBits, b \in BOOLEAN : SetBit(k, b)
    \/ DropCursor

SpecView == Init /\ [][NextView]_vars

\* A BitmaskVec made by new() or with_capacity(n), and the methods that
\* change its length or its capacity, on sequences of up to MaxLen elements
\* with one payload.
NextCap ==
    \/ \E n \in Lens : WithCapacity(n)
    \/ Push(100)
    \/ PushWithMask(1, 100)
    \/ \E i \in Lens : Insert(i, 100)
    \/ AddAssignItem(100)
    \/ \E i \in Lens : Remove(i)
    \/ \E i \in Lens : SwapRemove(i)
    \/ Pop
    \/ Clear
    \/ \E n \in Lens : Truncate(n)
    \/ \E s \in Lens, e \in Lens : Drain(s, e)
    \/ \E n \in Lens : Resize(n, 100)
    \/ \E n \in Lens : ResizeWithMask(n, 1, 100)
    \/ \E n \in Lens : ResizeWith(n, [bitmask |-> 0, i |-> 0, calls |-> 0])
    \/ \E o \in ViewSeqs(MaxLen - Len(inner)) : Append_(o)
    \/ \E o \in ViewSeqs(MaxLen - Len(inner)) : ExtendFromSlice(o)
    \/ \E o \in ViewSeqs(MaxLen - Len(inner)) : AddAssignVec(o)
    \/ \E a \in Lens : Reserve(a)
    \/ \E a \in Lens : ReserveExact(a)

SpecCap == Init /\ [][NextCap]_vars

Next == NextVec \/ NextEdit \/ NextOrder \/ NextView \/ NextCap \/ NextIter

\* The whole library, from BitmaskVec::new().
Spec == Init /\ [][Next]_vars

\* The methods of BitmaskVec alone, from BitmaskVec::new().
SpecVec == Init /\ [][NextVec]_vars

\* The sequences an iterator is taken from: every sequence of at most MaxLen
\* elements with any bitmasks, as push_with_mask builds them.  The iterators
\* never read a payload, so the payloads alternate between the two values; the
\* writes through a mutable iterator then store either value anywhere.
\* The capacity of a Vec that n elements were pushed onto, one by one.
RECURSIVE pushed_capacity(_)
pushed_capacity(n) ==
    IF n = 0 THEN 0 ELSE reserve(pushed_capacity(n - 1), n)

StoredSeqs ==
    UNION {{[i \in 1 .. n |-> new(ms[i], Payload(i))] : ms \in [1 .. n -> Masks]} :
              n \in Lens}

InitIter ==
    /\ inner \in StoredSeqs
    /\ cursor = NoCursor
    /\ last = [op |-> "new", index |-> NoVal, bitmask |-> NoVal, item |-> NoVal,
               ret |-> None, panic |-> FALSE, after_push |-> FALSE]
    /\ pre_inner = inner
    /\ hist = NoHist
    /\ capacity = pushed_capacity(Len(inner))
    /\ other = NoOther
    /\ pre_other = <<>>
    /\ factory = NoFactory
    /\ drained = NoDrain
    /\ built = NoBuilt

\* One iterator over a stored sequence, from its construction on.  (What a
\* later iterator meets is again a stored sequence, but for the payloads that
\* were written, which no iterator reads.)
SpecIter == InitIter /\ [][NextIter]_vars

\* ------------------------------------------------------------------ claims
ReadOnlyKinds == {"BitmaskVecIter", "BitmaskVecIterWithMask"}

Bit(x, k) == (x \div (2 ^ k)) % 2

\* Every bit set in mask m is set in bitmask b: what (b & m) == m says.
Contains(b, m) == \A k \in 0 .. (MaskBits - 1) : Bit(m, k) = 1 => Bit(b, k) = 1

Range(q) == {q[k] : k \in 1 .. Len(q)}

Min(S) == CHOOSE x \in S : \A y \in S : x <= y

Indices(s) == [i \in 1 .. Len(s) |-> i]

\* The positions of s whose bitmask contains m, in order.
MatchingIdx(s, m) ==
    LET Test(i) == Contains(s[i].bitmask, m)
    IN  SelectSeq(Indices(s), Test)

IsPrefix(p, q) == Len(p) <= Len(q) /\ p = SubSeq(q, 1, Len(p))

StrictlyIncreasing(q) == \A j, k \in 1 .. Len(q) : j < k => q[j] < q[k]

\* A call of next() on any of the four iterators, of filter_mask(m) on either
\* of the two that have it, and any call on a live iterator.
AnyNext == IterNext \/ IterWithMaskNext \/ IterMutNext \/ IterWithMaskMutNext
AnyFilter(m) == IterWithMaskFilter(m) \/ IterWithMaskMutFilter(m)
CursorStep == AnyNext \/ \E m \in Masks : AnyFilter(m)

\* The positions the live iterator has passed without yielding them.
Skipped == {i \in 1 .. (cursor.pos - 1) : i \notin Range(hist.yielded)}

\* C1: for every element of the sequence and every candidate mask m,
\* matches_mask(m) is true exactly when every bit of m is set in the element's
\* bitmask ((bitmask & m) == m), and the zero mask matches every element.
C1_MatchesMaskIsContainment ==
    \A i \in 1 .. Len(inner), m \in Masks :
        /\ matches_mask(inner[i].bitmask, m) <=> Contains(inner[i].bitmask, m)
        /\ matches_mask(inner[i].bitmask, 0)

\* C1 witness: filter_mask(1) has yielded an element whose bitmask is 3, which
\* contains the mask without being equal to it.
C1_Witness ==
    /\ hist.calls = "filter_mask"
    /\ hist.fmask = 1
    /\ Len(hist.yielded) > 0
    /\ inner[LastYielded].bitmask = 3

\* What C2 asks of a filter_mask(m) step.
FilterPost(m) ==
    LET M == {j \in cursor.pos .. Len(inner) : matches_mask(inner[j].bitmask, m)}
    IN  IF M = {}
        THEN /\ ~last'.ret.some
             /\ cursor'.pos = Len(inner) + 1
        ELSE /\ last'.ret.some
             /\ last'.ret.idx = Min(M)
             /\ cursor'.pos = Min(M) + 1

\* C2: filter_mask(m), on the read-only and on the mutable payload+mask
\* iterator, returns the first element at or after the iterator's position
\* that satisfies matches_mask(m) and leaves the iterator right after it; when
\* none of the remaining elements matches it returns None and leaves the
\* iterator at the end.
C2_FilterMaskFindsFirstMatch ==
    [][\A m \in Masks : AnyFilter(m) => FilterPost(m)]_vars

\* C2 witness: the one filter_mask call made so far passed over element 1,
\* which does not match, and returned element 2.
C2_Witness ==
    /\ hist.calls = "filter_mask"
    /\ last.op = "filter_mask"
    /\ hist.yielded = <<2>>
    /\ last.ret.some
    /\ last.ret.idx = 2
    /\ cursor.pos = 3
    /\ ~matches_mask(inner[1].bitmask, hist.fmask)

\* C3: on a new payload+mask iterator called with filter_mask(m) only, always
\* with the same m, the elements yielded are, in order and once each, the
\* elements whose bitmask contains m: a prefix of them at any time, and all
\* of them once filter_mask has returned None, so that their number is the
\* number of matching elements.
C3_RepeatedFilterYieldsMatches ==
    (cursor.kind \in WithMaskKinds /\ hist.calls = "filter_mask") =>
        /\ IsPrefix(hist.yielded, MatchingIdx(inner, hist.fmask))
        /\ hist.exhausted =>
             /\ hist.yielded = MatchingIdx(inner, hist.fmask)
             /\ Len(hist.yielded) =
                    Cardinality({i \in 1 .. Len(inner) :
                                    BitAnd(inner[i].bitmask, hist.fmask) = hist.fmask})

\* C3 witness: filter_mask with one nonzero mask has run to None on a sequence
\* of which it yielded some elements and passed over others.
C3_Witness ==
    /\ hist.calls = "filter_mask"
    /\ hist.fmask # 0
    /\ hist.exhausted
    /\ Len(hist.yielded) > 0
    /\ Len(hist.yielded) < Len(inner)

\* C4: whatever the interleaving of next() and filter_mask(m) calls and
\* whatever the masks, the iterator never rewinds: the positions it yields are
\* strictly increasing (so none is yielded twice), all lie behind its
\* position, its position never decreases, a call yields nothing behind the
\* position it started from, and a position passed over is never yielded later.
C4_NeverRewinds ==
    /\ [](StrictlyIncreasing(hist.yielded)
            /\ \A i \in Range(hist.yielded) : i < cursor.pos)
    /\ [][(~Idle /\ ~Idle') =>
            /\ cursor'.pos >= cursor.pos
            /\ \A i \in Skipped : i \notin Range(hist'.yielded)
            /\ CursorStep /\ last'.ret.some => last'.ret.idx >= cursor.pos]_vars

\* C4 witness: calls of both kinds or with different masks have been made, an
\* element was yielded after another one had been passed over, and the iterator
\* was called again after that.
C4_Witness ==
    /\ hist.calls = "mixed"
    /\ cursor.kind = "BitmaskVecIterWithMask"
    /\ hist.yielded = <<2>>
    /\ Skipped = {1}
    /\ hist.exhausted

\* C5: once a call of next() or filter_mask() on an iterator, of any of the
\* four kinds, has returned None, every later call of next() or filter_mask()
\* with any mask returns None.
C5_ExhaustionIsIdempotent ==
    [][(hist.exhausted /\ CursorStep) => (~last'.ret.some /\ hist'.exhausted)]_vars

\* C5 witness: an iterator over a non-empty sequence has returned None and has
\* been called again after that.
C5_Witness ==
    /\ hist.exhausted
    /\ hist.recalled
    /\ Len(inner) > 0
    /\ ~last.ret.some

\* C6: an iterator of any of the four kinds called with next() only yields the
\* positions in index order, one reference per element, len() of them once it
\* has returned None; and a call on a read-only iterator leaves the sequence
\* as it was.
C6_PlainTraversalYieldsAll ==
    /\ (~Idle /\ hist.calls = "next") =>
          /\ hist.yielded = [i \in 1 .. (cursor.pos - 1) |-> i]
          /\ hist.exhausted => Len(hist.yielded) = Len(inner)
    /\ cursor.kind \in ReadOnlyKinds => inner = pre_inner

\* C6 witness: next() has been called on a mutable payload iterator until it
\* returned None, over a sequence of two different elements.
C6_Witness ==
    /\ cursor.kind = "BitmaskVecIterMut"
    /\ hist.calls = "next"
    /\ hist.exhausted
    /\ Len(inner) = 2
    /\ inner[1] # inner[2]

\* C7: push(v) and push_with_mask(m, v) increase len() by exactly 1, put the
\* new element (payload v and, for push_with_mask, mask m) at index len() - 1,
\* and leave every element stored before at its index, unchanged.
C7_PushAppends ==
    last.op \in {"push", "push_with_mask"} =>
        /\ Len(inner) = Len(pre_inner) + 1
        /\ inner[Len(inner)].item = last.item
        /\ last.op = "push_with_mask" => inner[Len(inner)].bitmask = last.bitmask
        /\ \A i \in 1 .. Len(pre_inner) : inner[i] = pre_inner[i]

\* C7 witness: push(v) was called on a sequence that held an element with
\* another payload and a nonzero mask.
C7_Witness ==
    /\ last.op = "push"
    /\ Len(pre_inner) = 1
    /\ pre_inner[1].bitmask # 0
    /\ pre_inner[1].item # last.item

\* The positions of the elements the last call added, for a call that takes no
\* mask.
AddedNoMask ==
    IF last.op \in {"push", "add_assign_item"} THEN {Len(inner)}
    ELSE IF last.op = "insert" THEN {last.index + 1}
    ELSE (Len(pre_inner) + 1) .. Len(inner)

\* C8: every element added by a call that takes no mask (push, insert, the
\* growth of resize, `+= payload`) has the all-zero mask, so that push(v) gives
\* what push_with_mask(0, v) gives, and the element satisfies matches_mask(m)
\* for m = 0 only.
C8_NoMaskMeansZeroMask ==
    (last.op \in {"push", "insert", "resize", "add_assign_item"} /\ ~last.panic) =>
        /\ \A i \in AddedNoMask :
              /\ inner[i].bitmask = 0
              /\ inner[i].item = last.item
              /\ \A m \in Masks : matches_mask(inner[i].bitmask, m) <=> m = 0
        /\ last.op \in {"push", "add_assign_item"} =>
              inner = push_with_mask(pre_inner, 0, last.item)

\* C8 witness: insert(0, v) put an element in front of one whose mask is 3.
C8_Witness ==
    /\ last.op = "insert"
    /\ ~last.panic
    /\ last.index = 0
    /\ Len(pre_inner) > 0
    /\ pre_inner[1].bitmask = 3

\* C9: a pop_with_mask() made right after push_with_mask(m, v) returns
\* Some((m, v)) and leaves the sequence as it was before the push.
C9_PushPopRoundTrip ==
    [][(last.op = "push_with_mask" /\ last'.op = "pop_with_mask") =>
          /\ last'.ret.some
          /\ last'.ret.bitmask = last.bitmask
          /\ last'.ret.item = last.item
          /\ inner' = pre_inner]_vars

\* C9 witness: pop_with_mask() was called right after a push_with_mask onto a
\* non-empty sequence whose last element differs from the one pushed.
C9_Witness ==
    /\ last.op = "pop_with_mask"
    /\ last.after_push
    /\ Len(inner) > 0
    /\ inner[Len(inner)] # pre_inner[Len(pre_inner)]

\* C10: pop() and pop_with_mask() on an empty sequence return None, without
\* panicking, and leave it empty; on a non-empty one they return the last
\* element (pop its payload, pop_with_mask its mask and payload), remove it
\* and nothing else, and so decrease len() by 1.
C10_PopLastOrNone ==
    last.op \in {"pop", "pop_with_mask"} =>
        /\ ~last.panic
        /\ Len(pre_inner) = 0 => (~last.ret.some /\ inner = <<>>)
        /\ Len(pre_inner) > 0 =>
              /\ last.ret.some
              /\ last.ret.item = pre_inner[Len(pre_inner)].item
              /\ last.op = "pop_with_mask" =>
                    last.ret.bitmask = pre_inner[Len(pre_inner)].bitmask
              /\ Len(inner) = Len(pre_inner) - 1
              /\ \A i \in 1 .. Len(inner) : inner[i] = pre_inner[i]

\* C10 witness: pop() was called on an empty sequence.
C10_Witness ==
    /\ last.op = "pop"
    /\ Len(pre_inner) = 0
    /\ ~last.ret.some

\* What the last call left of the elements stored before it: positions 1 .. n
\* are as they were.
SamePrefix(n) == \A j \in 1 .. n : inner[j] = pre_inner[j]

\* C11: a position out of range is never coerced.  insert and insert_with_mask
\* panic exactly when index > len() (so that index == len() succeeds); remove,
\* remove_with_mask, swap_remove, swap_with_mask_remove and indexing, read or
\* write, panic exactly when index >= len(), which is any index on an empty
\* sequence; and a call that panics returns nothing and leaves the sequence
\* as it was.
C11_OutOfRangePanics ==
    /\ last.op \in {"insert", "insert_with_mask"} =>
          (last.panic <=> last.index > Len(pre_inner))
    /\ last.op \in {"remove", "remove_with_mask", "swap_remove",
                    "swap_with_mask_remove", "index", "index_mut"} =>
          (last.panic <=> last.index >= Len(pre_inner))
    /\ last.panic => (~last.ret.some /\ inner = pre_inner)

\* C11 witness: remove(index) was called with index == len() on a non-empty
\* sequence, and panicked.
C11_Witness ==
    /\ last.op = "remove"
    /\ last.panic
    /\ Len(pre_inner) > 0
    /\ last.index = Len(pre_inner)

\* C12: for index <= len(), insert_with_mask(index, m, v) gives
\* old[0..index) ++ [(m, v)] ++ old[index..len): len() grows by 1, the elements
\* before index are unchanged and every element formerly at j >= index is at
\* j + 1 with its own mask and payload; insert(index, v) does the same with the
\* zero mask, which is what insert_with_mask(index, 0, v) does.
C12_InsertShifts ==
    /\ (last.op \in {"insert", "insert_with_mask"} /\ ~last.panic) =>
          /\ Len(inner) = Len(pre_inner) + 1
          /\ SamePrefix(last.index)
          /\ inner[last.index + 1].item = last.item
          /\ inner[last.index + 1].bitmask =
                 (IF last.op = "insert" THEN 0 ELSE last.bitmask)
          /\ \A j \in (last.index + 1) .. Len(pre_inner) : inner[j + 1] = pre_inner[j]
    /\ \A i \in EditLens, v \in Items :
          insert(inner, i, v) = insert_with_mask(inner, i, 0, v)

\* C12 witness: insert_with_mask put an element with a nonzero mask between
\* two elements that differ from each other.
C12_Witness ==
    /\ last.op = "insert_with_mask"
    /\ ~last.panic
    /\ last.index = 1
    /\ last.bitmask # 0
    /\ Len(pre_inner) = 2
    /\ pre_inner[1] # pre_inner[2]

\* C13: for index < len(), remove(index) returns the payload formerly at index
\* (remove_with_mask that element's mask and payload), len() decreases by 1,
\* the elements before index are unchanged and every element formerly at
\* j > index is at j - 1 with its own mask and payload.
C13_RemoveShifts ==
    (last.op \in {"remove", "remove_with_mask"} /\ ~last.panic) =>
        /\ last.ret.some
        /\ last.ret.item = pre_inner[last.index + 1].item
        /\ last.op = "remove_with_mask" =>
              last.ret.bitmask = pre_inner[last.index + 1].bitmask
        /\ Len(inner) = Len(pre_inner) - 1
        /\ SamePrefix(last.index)
        /\ \A j \in (last.index + 2) .. Len(pre_inner) : inner[j - 1] = pre_inner[j]

\* C13 witness: remove_with_mask(0) on three elements of which the last two
\* differ.
C13_Witness ==
    /\ last.op = "remove_with_mask"
    /\ last.index = 0
    /\ Len(pre_inner) = 3
    /\ pre_inner[2] # pre_inner[3]
    /\ Len(inner) = 2

\* C14: for index < len(), swap_remove(index) and swap_with_mask_remove(index)
\* return the element formerly at index (its payload, or its mask and
\* payload), decrease len() by 1, put the former last element, mask and
\* payload, at index when index was not the last position, and leave every
\* other position as it was.
C14_SwapRemoveMovesLast ==
    (last.op \in {"swap_remove", "swap_with_mask_remove"} /\ ~last.panic) =>
        /\ last.ret.some
        /\ last.ret.item = pre_inner[last.index + 1].item
        /\ last.op = "swap_with_mask_remove" =>
              last.ret.bitmask = pre_inner[last.index + 1].bitmask
        /\ Len(inner) = Len(pre_inner) - 1
        /\ last.index + 1 < Len(pre_inner) =>
              inner[last.index + 1] = pre_inner[Len(pre_inner)]
        /\ \A j \in 1 .. Len(inner) : j # last.index + 1 => inner[j] = pre_inner[j]

\* C14 witness: swap_with_mask_remove(0) on three elements of which the last
\* two differ: the last one is now first and the order is broken.
C14_Witness ==
    /\ last.op = "swap_with_mask_remove"
    /\ last.index = 0
    /\ Len(pre_inner) = 3
    /\ pre_inner[2] # pre_inner[3]
    /\ inner = <<pre_inner[3], pre_inner[2]>>

\* C15: append(other) moves the elements of other onto the end of self in
\* their order: afterwards self is old_self ++ old_other, so that its length
\* is the sum of the two lengths and both parts keep their order, and other is
\* empty (and still the caller's).
C15_AppendMovesAll ==
    last.op = "append" =>
        /\ Len(inner) = Len(pre_inner) + Len(pre_other)
        /\ SamePrefix(Len(pre_inner))
        /\ \A j \in 1 .. Len(pre_other) : inner[Len(pre_inner) + j] = pre_other[j]
        /\ Len(other.inner) = 0
        /\ ~other.moved

\* C15 witness: append of two elements that differ onto a non-empty sequence.
C15_Witness ==
    /\ last.op = "append"
    /\ Len(pre_inner) > 0
    /\ Len(pre_other) = 2
    /\ pre_other[1].bitmask # pre_other[2].bitmask
    /\ Len(inner) = 3

\* C16: `sequence += other_sequence` leaves sequence holding its former
\* elements followed by those of other_sequence in their order, each mask with
\* its payload, and nothing in other_sequence (which the call consumed): for
\* the elements, what append(other_sequence) gives; and adding an empty
\* sequence leaves the left side as it was.
C16_AddAssignVecAppends ==
    last.op = "add_assign_vec" =>
        /\ Len(inner) = Len(pre_inner) + Len(pre_other)
        /\ SamePrefix(Len(pre_inner))
        /\ \A j \in 1 .. Len(pre_other) : inner[Len(pre_inner) + j] = pre_other[j]
        /\ Len(other.inner) = 0
        /\ inner = append(pre_inner, pre_other).inner
        /\ other.inner = append(pre_inner, pre_other).other
        /\ Len(pre_other) = 0 => inner = pre_inner

\* C16 witness: `+=` of two elements that differ onto a non-empty sequence.
C16_Witness ==
    /\ last.op = "add_assign_vec"
    /\ Len(pre_inner) > 0
    /\ Len(pre_other) = 2
    /\ pre_other[1] # pre_other[2]
    /\ other.moved

\* C17: truncate(new_len) keeps the first new_len elements, unchanged, and
\* drops the rest when new_len < len(); when new_len >= len() it changes
\* neither the length nor the contents, and it never fails.
C17_TruncateKeepsPrefix ==
    last.op = "truncate" =>
        /\ ~last.panic
        /\ last.index < Len(pre_inner) =>
              (Len(inner) = last.index /\ SamePrefix(last.index))
        /\ last.index >= Len(pre_inner) => inner = pre_inner

\* C17 witness: truncate(1) on three elements of which the first and the last
\* differ.
C17_Witness ==
    /\ last.op = "truncate"
    /\ last.index = 1
    /\ Len(pre_inner) = 3
    /\ pre_inner[1] # pre_inner[3]

\* C18: a call of clear(), on any sequence, leaves len() = 0, is_empty() true
\* and capacity() as it was before the call.
C18_ClearKeepsCapacity ==
    [][last'.op = "clear" =>
          /\ Len(inner') = 0
          /\ is_empty(inner')
          /\ capacity' = capacity]_vars

\* C18 witness: clear() was called on a sequence that held elements, in an
\* allocation that is still there.
C18_Witness ==
    /\ last.op = "clear"
    /\ Len(pre_inner) > 0
    /\ capacity >= Len(pre_inner)

\* C19: resize(new_len, v) with new_len > len() appends new_len - len()
\* elements, each with the zero mask and payload v, after the elements stored
\* before, which are unchanged, so that len() = new_len; with new_len <= len()
\* it does what truncate(new_len) does.  resize_with_mask does the same with
\* the mask it is given on every element it appends.
C19_ResizeFillsOrTruncates ==
    LET fill == IF last.op = "resize" THEN 0 ELSE last.bitmask
    IN  last.op \in {"resize", "resize_with_mask"} =>
            /\ last.index > Len(pre_inner) =>
                  /\ Len(inner) = last.index
                  /\ SamePrefix(Len(pre_inner))
                  /\ \A j \in (Len(pre_inner) + 1) .. last.index :
                        (inner[j].bitmask = fill /\ inner[j].item = last.item)
            /\ last.index <= Len(pre_inner) => inner = truncate(pre_inner, last.index)

\* C19 witness: resize_with_mask with a nonzero mask made a sequence of one
\* element three elements long.
C19_Witness ==
    /\ last.op = "resize_with_mask"
    /\ last.bitmask # 0
    /\ Len(pre_inner) = 1
    /\ last.index = 3

\* The element the k-th invocation of a closure returns that captured bitmask b
\* and counter value i0.
KthResult(b, i0, k) == [bitmask |-> b, item |-> 100 + ((i0 + k) % 2)]

\* C20: resize_with(new_len, f) with new_len > len() invokes f exactly
\* new_len - len() times and stores the result of its k-th invocation right
\* after the k - 1 results before it, behind the elements stored before, which
\* are unchanged; with new_len <= len() it never invokes f and does what
\* truncate(new_len) does.
C20_ResizeWithCallsFactory ==
    LET grown == last.index - Len(pre_inner)
        i0 == factory.i - factory.calls
    IN  last.op = "resize_with" =>
            /\ grown > 0 =>
                  /\ factory.calls = grown
                  /\ Len(inner) = last.index
                  /\ SamePrefix(Len(pre_inner))
                  /\ \A k \in 1 .. grown :
                        inner[Len(pre_inner) + k] = KthResult(factory.bitmask, i0, k)
            /\ grown <= 0 =>
                  /\ factory.calls = 0
                  /\ inner = truncate(pre_inner, last.index)

\* C20 witness: resize_with invoked the closure twice to make a sequence of
\* one element three elements long.
C20_Witness ==
    /\ last.op = "resize_with"
    /\ Len(pre_inner) = 1
    /\ last.index = 3
    /\ factory.calls = 2
    /\ inner[2] # inner[3]

\* C22: indexing is payload-only.  For i < len(), sequence[i] returns the
\* payload of the element at position i, without its mask, and leaves the
\* sequence as it was; sequence[i] = v changes that payload and nothing else:
\* the mask at position i, every other element and len() stay as they were.
C22_IndexIsPayloadOnly ==
    /\ (last.op = "index" /\ ~last.panic) =>
          /\ last.ret.some
          /\ last.ret.item = pre_inner[last.index + 1].item
          /\ last.ret.bitmask = NoVal
          /\ inner = pre_inner
    /\ (last.op = "index_mut" /\ ~last.panic) =>
          /\ Len(inner) = Len(pre_inner)
          /\ inner[last.index + 1].item = last.item
          /\ inner[last.index + 1].bitmask = pre_inner[last.index + 1].bitmask
          /\ \A j \in 1 .. Len(inner) : j # last.index + 1 => inner[j] = pre_inner[j]

\* C22 witness: sequence[1] = v gave a new payload to the second of three
\* elements, whose mask is not zero.
C22_Witness ==
    /\ last.op = "index_mut"
    /\ ~last.panic
    /\ last.index = 1
    /\ Len(pre_inner) = 3
    /\ pre_inner[2].bitmask # 0
    /\ pre_inner[2].item # last.item

\* C29: matching is monotonic in the candidate mask.  For every element and
\* all masks m1, m2 with m1 & m2 == m1, if the element matches m2 it matches
\* m1.
C29_MatchingIsMonotonic ==
    \A i \in 1 .. Len(inner), m1 \in Masks, m2 \in Masks :
        (BitAnd(m1, m2) = m1 /\ matches_mask(inner[i].bitmask, m2)) =>
            matches_mask(inner[i].bitmask, m1)

\* C29 witness: filter_mask with a mask of two bits has yielded an element, so
\* that the element matches a mask that has proper subsets other than zero.
C29_Witness ==
    /\ hist.calls = "filter_mask"
    /\ hist.fmask = 3
    /\ Len(hist.yielded) > 0
    /\ matches_mask(inner[LastYielded].bitmask, 3)
    /\ last.ret.some

\* C24: read-only iterators coexist.  While an iterator made by iter() or
\* iter_with_mask() is alive (and so no mutable iterator is, and no call on
\* the sequence is under way), another one can be made by iter() or
\* iter_with_mask().
C24_SharedCursorsCoexist ==
    cursor.kind \in ReadOnlyKinds => ENABLED (Iter \/ IterWithMask)

\* C21: drain(start .. end) removes the elements at positions [start, end),
\* hands them out in their order as elements with mask and payload, and moves
\* the elements after the range down; the call fails, leaving the sequence as
\* it was, exactly when start > end or end > len().
C21_DrainRemovesRange ==
    last.op = "drain" =>
        LET s == drained.start
            e == drained.end
            n == Len(pre_inner)
        IN  /\ last.panic <=> (s > e \/ e > n)
            /\ last.panic => inner = pre_inner
            /\ ~last.panic =>
                  /\ Len(drained.items) = e - s
                  /\ Len(inner) = n - (e - s)
                  /\ \A k \in 1 .. Len(drained.items) :
                        drained.items[k] = pre_inner[s + k]
                  /\ \A k \in 1 .. Len(inner) :
                        inner[k] = IF k <= s THEN pre_inner[k]
                                   ELSE pre_inner[k + (e - s)]

\* C21 witness: drain(1 .. 2) took the second of three elements, which has a
\* mask other than that of the element after it, and the third moved down.
C21_Witness ==
    /\ last.op = "drain"
    /\ ~last.panic
    /\ drained.start = 1
    /\ drained.end = 2
    /\ Len(pre_inner) = 3
    /\ pre_inner[2] # pre_inner[3]
    /\ drained.items = <<pre_inner[2]>>
    /\ inner = <<pre_inner[1], pre_inner[3]>>

\* The positions of element x in s.
PositionsOf(s, x) == {k \in 1 .. Len(s) : s[k] = x}

\* The elements that stand exactly once in s and exactly once in t.
Survivors(s, t) ==
    {x \in Range(s) \cap Range(t) :
        Cardinality(PositionsOf(s, x)) = 1 /\ Cardinality(PositionsOf(t, x)) = 1}

PositionOf(s, x) == CHOOSE k \in PositionsOf(s, x) : TRUE

\* Any two elements that are in s and in t stand in t in the order they have
\* in s.
OrderKept(s, t) ==
    \A x \in Survivors(s, t), y \in Survivors(s, t) :
        PositionOf(s, x) < PositionOf(s, y) => PositionOf(t, x) < PositionOf(t, y)

SwapRemovals == {"swap_remove", "swap_with_mask_remove"}

\* C27: order is kept.  Every step other than swap_remove and
\* swap_with_mask_remove (push, insert, remove, pop, truncate, drain, resize,
\* append, extend_from_slice, +=, index assignment, making, stepping and
\* dropping an iterator) leaves the elements that are in the sequence before
\* and after it in the order they had.
C27_OrderIsKept ==
    [][last'.op \notin SwapRemovals => OrderKept(inner, inner')]_vars

\* C27 witness: remove(0) on three distinct elements left the other two in
\* their order, where swap_remove would have put the last one first.
C27_Witness ==
    /\ last.op = "remove"
    /\ ~last.panic
    /\ last.index = 0
    /\ Len(pre_inner) = 3
    /\ Cardinality(Range(pre_inner)) = 3
    /\ inner = <<pre_inner[2], pre_inner[3]>>
    /\ vec_swap_remove(pre_inner, 0).inner # inner

\* What C23 asks of a step that calls set_mask(m) on the element at position
\* k.
SetMaskPost(k, m) ==
    /\ Len(inner') = Len(inner)
    /\ inner'[k].bitmask = m
    /\ inner'[k].item = inner[k].item
    /\ \A j \in 1 .. Len(inner) : j # k => inner'[j] = inner[j]
    /\ \A c \in ViewMasks : matches_mask(inner'[k].bitmask, c) <=> Contains(m, c)

\* What filter_mask has yielded and passed over agrees with the bitmasks
\* stored now.
FilterSeesStoredMasks ==
    (cursor.kind = "BitmaskVecIterWithMask" /\ hist.calls = "filter_mask") =>
        \A i \in 1 .. Len(inner) :
            i < cursor.pos =>
                (i \in Range(hist.yielded) <=> Contains(inner[i].bitmask, hist.fmask))

\* C23: set_mask(m) on an element, reached through the mutable payload+mask
\* iterator or through as_mut_slice, makes m the bitmask of that element (m
\* itself, not the bitwise OR of the old bitmask and m) and leaves the payload
\* of that element, every other element, and the length and order of the
\* sequence as they were; matches_mask and filter_mask see m from then on.
C23_SetMaskReplaces ==
    [][/\ cursor.kind = "BitmaskVecIterWithMaskMut" =>
             \A m \in WrittenMasks : SetMask(m) => SetMaskPost(LastYielded, m)
       /\ (last'.op = "as_mut_slice_set_mask" /\ ~last'.panic) =>
             \A i \in Lens, m \in WrittenMasks :
                 SliceSetMask(i, m) => SetMaskPost(i + 1, m)
       /\ FilterSeesStoredMasks']_vars

\* C23 witness: as_mut_slice()[1].set_mask(1) on an element whose bitmask was
\* 2, so that the OR of the two would be 3; the element before it stays as
\* it was.
C23_Witness ==
    /\ last.op = "as_mut_slice_set_mask"
    /\ ~last.panic
    /\ last.index = 1
    /\ last.bitmask = 1
    /\ Len(pre_inner) = 2
    /\ pre_inner[2].bitmask = 2
    /\ pre_inner[1].bitmask = 2
    /\ inner[2].bitmask = 1
    /\ inner[1] = pre_inner[1]

\* C25: a live iterator excludes everything else.  While an iterator is
\* alive (each of them holds the `&mut` borrow of the sequence) a step is a
\* call of next or filter_mask on it, a write through the reference a mutable
\* iterator handed out, or its drop: no other iterator is made, no method of
\* the sequence is called, and the length stays as it is.
C25_LiveIteratorExcludesCalls ==
    [][~Idle =>
          /\ Len(inner') = Len(inner)
          /\ \/ /\ last'.op \in CursorCalls
                /\ cursor'.kind = cursor.kind
                /\ inner' = inner
             \/ /\ last'.op = "drop"
                /\ cursor' = NoCursor
                /\ inner' = inner
             \/ /\ last' = last
                /\ cursor' = cursor
                /\ cursor.kind \in MutKinds]_vars

\* C25 witness: the iterator of iter_mut has handed out an element of a
\* sequence that has room for more, and neither a push, a pop, a write
\* through as_mut_slice nor a new iterator of any kind can take place.
C25_Witness ==
    /\ cursor.kind = "BitmaskVecIterMut"
    /\ Len(hist.yielded) > 0
    /\ Len(inner) < MaxLen
    /\ ~ENABLED (PushWithMask(1, 100) \/ Pop \/ SliceSetMask(0, 1)
                    \/ Iter \/ IterWithMask \/ IterMut \/ IterWithMaskMut)
    /\ ENABLED IterMutNext

\* The elements a call was given: the one made of its bitmask (the default
\* bitmask when it takes none) and its payload, and those of the second
\* BitmaskVec or slice o.
Given(c, o) ==
    Range(o) \cup (IF c.item = NoVal THEN {}
                   ELSE {new(IF c.bitmask = NoVal THEN B_default ELSE c.bitmask, c.item)})

\* s and t have the same bitmasks at the same positions.
SameMasks(s, t) ==
    /\ Len(s) = Len(t)
    /\ \A j \in 1 .. Len(s) : s[j].bitmask = t[j].bitmask

\* s and t differ at most in the bitmask of the element at position k.
OnlyMaskAt(s, t, k) ==
    /\ Len(s) = Len(t)
    /\ \A j \in 1 .. Len(s) : j # k => s[j] = t[j]
    /\ k \in 1 .. Len(s) => s[k].item = t[k].item

\* What C30 asks of set_bit(bit, value) on the element at position k.
SetBitPost(k, bit, value) ==
    /\ OnlyMaskAt(inner, inner', k)
    /\ get_bit(inner'[k].bitmask, bit) = value
    /\ \A other_bit \in 0 .. (MaskBits - 1) :
          other_bit # bit =>
              get_bit(inner'[k].bitmask, other_bit) = get_bit(inner[k].bitmask, other_bit)

SliceMaskWrites == {"as_mut_slice_set_mask", "as_mut_slice_set_bit"}

\* C30: bitmask and payload travel together.  A step of a method that moves
\* elements (push, insert, remove, swap_remove, pop, truncate, drain, resize,
\* append, extend_from_slice, +=) leaves in the sequence only elements, bitmask
\* and payload, that were in it or that the call was given; index assignment
\* and a write through iter_mut leave every bitmask where it was; a bitmask
\* changes only by a write through as_mut_slice or through the reference
\* iter_with_mask_mut handed out, and then only that of the element written
\* to; set_bit through either changes the one bit it names.
C30_MaskTravelsWithPayload ==
    [][/\ (Idle /\ last'.op \notin SliceMaskWrites \cup {"index_mut"}) =>
             Range(inner') \subseteq Range(inner) \cup Given(last', pre_other')
       /\ (Idle /\ last'.op = "index_mut") => SameMasks(inner, inner')
       /\ (Idle /\ last'.op \in SliceMaskWrites) =>
             OnlyMaskAt(inner, inner', last'.index + 1)
       /\ cursor.kind \in {"BitmaskVecIterMut"} \cup ReadOnlyKinds =>
             SameMasks(inner, inner')
       /\ (cursor.kind = "BitmaskVecIterWithMaskMut" /\ inner' # inner) =>
             /\ Len(hist.yielded) > 0
             /\ OnlyMaskAt(inner, [inner' EXCEPT ![LastYielded].item = inner[LastYielded].item],
                           LastYielded)
       /\ cursor.kind = "BitmaskVecIterWithMaskMut" =>
             \A k \in ViewBits, b \in BOOLEAN :
                 SetBit(k, b) => SetBitPost(LastYielded, k, b)
       /\ (last'.op = "as_mut_slice_set_bit" /\ ~last'.panic) =>
             \A i \in Lens, k \in ViewBits, b \in BOOLEAN :
                 SliceSetBit(i, k, b) => SetBitPost(i + 1, k, b)]_vars

\* C30 witness: swap_remove(0) on two elements that differ in bitmask and in
\* payload left the second one, with its own bitmask, at position 0.
C30_Witness ==
    /\ last.op = "swap_remove"
    /\ ~last.panic
    /\ last.index = 0
    /\ Len(pre_inner) = 2
    /\ pre_inner[1].bitmask # pre_inner[2].bitmask
    /\ pre_inner[1].item # pre_inner[2].item
    /\ inner = <<pre_inner[2]>>

\* C26: in every state reached by new() or with_capacity(n) and any calls of
\* push, insert, remove, swap_remove, pop, clear, truncate, drain, resize,
\* resize_with_mask, resize_with, append, extend_from_slice, reserve,
\* reserve_exact and +=, capacity() >= len(), and is_empty() is true exactly
\* when len() is 0.
C26_CapacityCoversLen ==
    /\ capacity >= Len(inner)
    /\ is_empty(inner) <=> Len(inner) = 0

\* C26 witness: an insertion has just filled the allocation, so that the
\* capacity is the length, and is_empty() is false.
C26_Witness ==
    /\ last.op \in Insertions
    /\ ~last.panic
    /\ Len(inner) > 0
    /\ capacity = Len(inner)
    /\ Len(pre_inner) < capacity
    /\ ~is_empty(inner)

\* C28: with_capacity(n) gives a sequence with len() = 0 and capacity() >= n,
\* and as long as nothing but insertions has been called on it and there have
\* been at most n of them, capacity() is what it was after with_capacity(n).
C28_WithCapacityHoldsN ==
    /\ last.op = "with_capacity" =>
          /\ Len(inner) = 0
          /\ capacity >= last.index
    /\ (built.fresh /\ built.pushes <= built.n) =>
          /\ built.cap >= built.n
          /\ capacity = built.cap
          /\ Len(inner) = built.pushes

\* C28 witness: with_capacity(2) and two insertions; the capacity is still 2,
\* where a sequence made by new() would have allocated MIN_NON_ZERO_CAP.
C28_Witness ==
    /\ built.fresh
    /\ built.n = 2
    /\ built.pushes = 2
    /\ Len(inner) = 2
    /\ capacity = 2
    /\ capacity # MIN_NON_ZERO_CAP
====
